---- MODULE Spec2Model ----
(***************************************************************************)
(* uk-rail-tickets: the Express proxy of server/index.js (time-boxed       *)
(* cache, cachedFetchJson, the stations mirror with its fallback file and  *)
(* background refresh, the three proxy endpoints) and the pure functions   *)
(* and the comparison loop of the frontend script.                         *)
(*                                                                         *)
(* One atomic action is one run-to-completion slice of the Node event      *)
(* loop: from a callback's entry to its next await on real I/O (fetch,     *)
(* body read, mkdir, writeFile, readFile).                                 *)
(***************************************************************************)
EXTENDS Integers, Sequences, FiniteSets, TLC

\* ------------------------------------------------------------- bounds
\* Clock horizon (abstract time units) and number of concurrently running
\* handlers / refresh runs.
MaxTime == 2
MaxTasks == 2
\* Largest ttl handed to putCache when it is called directly.
MaxTtl == 2

\* ------------------------------------------------- configuration (env)
\* TTL.* and STATIONS_REFRESH_MS are read from the environment
\* (Number(process.env.X) || default); the values below are one such
\* configuration, in clock units.
TTL_STATIONS_MS == 1
TTL_FARES_MS == 1
TTL_SEARCH_MS == 2
STATIONS_REFRESH_MS == 1

\* --------------------------------------------------------- JSON values
\* A JSON value: its type tag and, for arrays and objects, its tokens.
JNull == [t |-> "null", a |-> <<>>]
JArr(s) == [t |-> "arr", a |-> s]
JObj(s) == [t |-> "obj", a |-> s]

\* JavaScript truthiness of a JSON value (if (hit) ..., line 57).
Truthy(v) == v.t \in {"arr", "obj"}

\* Element tokens of the station lists.
Elems == {"s1", "s2"}

\* JSON.stringify of an array / null: the characters written to the file.
Stringify(v) ==
  CASE v.t = "null" -> <<"null">>
    [] v.t = "arr" -> <<"[">> \o v.a \o <<"]">>
    [] OTHER -> <<"{">> \o v.a \o <<"}">>

\* JSON.parse: succeeds on exactly the texts Stringify produces.
ParseOk(raw) ==
  \/ raw = <<"null">>
  \/ /\ Len(raw) >= 2
     /\ raw[1] = "["
     /\ raw[Len(raw)] = "]"
     /\ \A k \in 2..(Len(raw) - 1) : raw[k] \in Elems

ParseVal(raw) ==
  IF raw = <<"null">> THEN JNull ELSE JArr(SubSeq(raw, 2, Len(raw) - 1))

\* ------------------------------------------------------- query strings
\* A query parameter: absent (undefined) or a string (sequence of chars).
Undefined == [def |-> FALSE, s |-> <<>>]
QStr(s) == [def |-> TRUE, s |-> s]

\* JavaScript truthiness of a query parameter: defined and non-empty.
QTruthy(p) == p.def /\ p.s # <<>>

NoQuery ==
  [term |-> Undefined, orig |-> Undefined, dest |-> Undefined,
   date |-> Undefined, time |-> Undefined, rlc |-> Undefined,
   rtn |-> Undefined]

\* The term used as typed.
NoTrim(s) == s

\* String.prototype.trim: strip leading and trailing white space.
RECURSIVE TrimLeft(_)
TrimLeft(s) ==
  IF s # <<>> /\ Head(s) = " " THEN TrimLeft(Tail(s)) ELSE s

RECURSIVE TrimRight(_)
TrimRight(s) ==
  IF s # <<>> /\ s[Len(s)] = " "
  THEN TrimRight(SubSeq(s, 1, Len(s) - 1)) ELSE s

Trim(s) == TrimRight(TrimLeft(s))

\* encodeURIComponent on the characters used here.
EncodeURIComponent(s) ==
  [k \in 1..Len(s) |-> IF s[k] = " " THEN "%20" ELSE s[k]]

\* ---------------------------------------------------------------- URLs
stationsRemote == [ep |-> "stations.json", q |-> <<>>]
LocUrl(term) ==
  [ep |-> "legacy_ac_loc", q |-> <<"term=">> \o EncodeURIComponent(term)]
RlcUrl(term) ==
  [ep |-> "legacy_ac_rlc", q |-> <<"term=">> \o EncodeURIComponent(term)]

\* new URLSearchParams({orig, dest}) plus the optional parameters.
FaresParams(r) ==
  <<"orig=">> \o r.orig.s \o <<"dest=">> \o r.dest.s
  \o (IF QTruthy(r.date) THEN <<"date=">> \o r.date.s ELSE <<>>)
  \o (IF QTruthy(r.time) THEN <<"time=">> \o r.time.s ELSE <<>>)
  \o (IF QTruthy(r.rlc) THEN <<"rlc=">> \o r.rlc.s ELSE <<>>)
  \o (IF QTruthy(r.rtn) THEN <<"rtn=", "1">> ELSE <<>>)

FaresUrl(r) == [ep |-> "legacy_querysimple", q |-> FaresParams(r)]

VARIABLES
  now,          \* Date.now()
  cache,        \* the Map of line 38: key -> [value, expires]
  file,         \* server/data/stations.json: [exists, data]
  remoteDoc,    \* the document the remote stations source serves
  tasks,        \* running async activations (handlers, refresh runs)
  nextDue,      \* earliest time of the next setInterval tick
  ev,           \* what the last step made observable (a response, ...)
  lastFetched,  \* history: result of the latest successful stations fetch
  fileWritten,  \* history: a writeFile of the fallback file has completed
  ioFailed,     \* history: a local mkdir / writeFile has failed
  row,          \* history: consecutive undisturbed refresh runs
  putLog,       \* history: key -> time, ttl and value of its latest putCache
  STATIONS,     \* frontend: the station directory (line 46)
  nearby,       \* frontend: the last findNearbyStations call and its result
  faresJson,    \* frontend: the document handed to parseCheapestFare
  cheapest,     \* frontend: what parseCheapestFare returned for it
  faresCache,   \* frontend: cache.fares (line 51)
  compare,      \* frontend: the running handleCompare call
  stationsCache, \* frontend: cache.stations (line 50)
  loads,        \* frontend: the loadStations calls
  lastRaw,      \* history: the raw list STATIONS was last computed from
  destOptions,  \* frontend: the destination suggestions (line 47)
  suggests,     \* frontend: the suggestDestinations calls
  lastQuery     \* history: the query of the latest input event

serverVars ==
  <<now, cache, file, remoteDoc, tasks, nextDue, ev,
    lastFetched, fileWritten, ioFailed, row>>

loadVars == <<stationsCache, loads, lastRaw>>

suggestVars == <<destOptions, suggests, lastQuery>>

clientVars ==
  <<STATIONS, nearby, faresJson, cheapest, faresCache, compare, loadVars, suggestVars>>

nonServer == <<putLog, clientVars>>

vars == <<serverVars, putLog, clientVars>>

\* --------------------------------------------------------------- cache
CacheKey_Shared(url) == [prefix |-> "fetch:", url |-> [ep |-> "", q |-> <<>>]]

CacheKey(url) == [prefix |-> "fetch:", url |-> url]

\* putCache leaving an entry that has not expired as it is.
putCache_KeepExisting(c, key, value, ttlMs, t) ==
  IF key \in DOMAIN c /\ t < c[key].expires THEN c
  ELSE [k \in (DOMAIN c) \cup {key} |->
          IF k = key THEN [value |-> value, expires |-> t + ttlMs] ELSE c[k]]

\* putCache (lines 39-42).
putCache(c, key, value, ttlMs, t) ==
  [k \in (DOMAIN c) \cup {key} |->
     IF k = key THEN [value |-> value, expires |-> t + ttlMs] ELSE c[k]]

\* The expiry test of getCache (line 46).
Expired(entry, t) == t > entry.expires

\* getCache (lines 43-51): the value returned, null on a miss ...
getCache(c, key, t) ==
  IF key \notin DOMAIN c THEN JNull
  ELSE IF Expired(c[key], t) THEN JNull
  ELSE c[key].value

\* ... and the Map afterwards (an expired entry is deleted).
getCacheMap(c, key, t) ==
  IF key \in DOMAIN c /\ Expired(c[key], t)
  THEN [k \in (DOMAIN c) \ {key} |-> c[k]]
  ELSE c

EmptyMap == [k \in {} |-> 0]

\* --------------------------------------------------------------- tasks
\* How an upstream GET ends: a 2xx with a JSON body ("ok"), a 2xx whose
\* body is not JSON ("badjson"), a non-2xx response received with its body
\* text ("status"), a network error ("neterr": fetch rejects), or a network
\* error while the body of a non-2xx response is read ("bodyerr":
\* res.text() rejects on line 63).
NoOutcome == [kind |-> "none", status |-> 0, doc |-> JNull]
UpstreamStatuses == {404, 503}

\* The Error thrown out of cachedFetchJson: err.status is set on line 65 only.
NoError == [hasStatus |-> FALSE, status |-> 0]
StatusError(s) == [hasStatus |-> TRUE, status |-> s]

IdleTask ==
  [kind |-> "idle", pc |-> "idle", req |-> NoQuery, out |-> NoOutcome,
   json |-> JNull, err |-> NoError]

Slots == 1..MaxTasks

\* A new activation takes the first free slot.
IsFree(i) ==
  /\ tasks[i].kind = "idle"
  /\ \A j \in 1..(i - 1) : tasks[j].kind # "idle"

AllIdle == \A i \in Slots : tasks[i].kind = "idle"

\* -------------------------------------------------------------- events
NoEvent ==
  [type |-> "none", kind |-> "none", req |-> NoQuery, status |-> 0,
   body |-> JNull, fetch |-> "none", ustatus |-> 0,
   url |-> [ep |-> "", q |-> <<>>], second |-> FALSE,
   prevFresh |-> FALSE, prevData |-> <<>>]

\* res.status(status).json(body) of a handler of the given kind; how is
\* the way its cachedFetchJson call ended: "none" (not called), "hit", or
\* the upstream's outcome.
Response(kind, req, status, body, how) ==
  [NoEvent EXCEPT !.type = "response", !.kind = kind, !.req = req,
                  !.status = status, !.body = body, !.fetch = how.kind,
                  !.ustatus = how.status]

NotCalled == [kind |-> "none", status |-> 0, doc |-> JNull]
CacheHit == [kind |-> "hit", status |-> 0, doc |-> JNull]

ErrBody(msg) == JObj(<<"error", msg>>)

\* The handlers' catch blocks answering 502 whatever the error.
ErrStatus_Always502(e) == 502

\* e.status || 502 (lines 109, 124, 138, 159).
ErrStatus(e) == IF e.hasStatus /\ e.status # 0 THEN e.status ELSE 502

ErrMessage(kind) ==
  CASE kind = "stations" -> "Failed to retrieve stations"
    [] kind = "loc" -> "Failed to search locations"
    [] kind = "railcards" -> "Failed to search railcards"
    [] OTHER -> "Failed to fetch fares"

\* --------------------------------------------- refresh-run bookkeeping
NoRow ==
  [prev |-> FALSE, prevFresh |-> FALSE, prevData |-> <<>>,
   cur |-> FALSE, curFresh |-> FALSE, curSecond |-> FALSE]

\* The cache holds no usable stations entry, or the one it holds is the
\* document the remote source serves now.
CacheAgrees ==
  LET hit == getCache(cache, CacheKey(stationsRemote), now)
  IN  (~Truthy(hit)) \/ hit = remoteDoc

\* ----------------------------------------------------- cachedFetchJson
ProxyKinds == {"loc", "railcards", "fares"}

\* (req.query.term || "").toString() (lines 116, 130).
TermOf(req) == IF QTruthy(req.term) THEN req.term.s ELSE <<>>

\* The upstream URL a handler of the given kind builds (lines 80, 119,
\* 133, 147-153) and the TTL it passes (lines 85, 100, 120, 134, 155).
UrlOf(kind, req) ==
  CASE kind = "loc" -> LocUrl(Trim(TermOf(req)))
    [] kind = "railcards" -> RlcUrl(Trim(TermOf(req)))
    [] kind = "fares" -> FaresUrl(req)
    [] OTHER -> stationsRemote

TtlOf(kind) ==
  CASE kind \in {"loc", "railcards"} -> TTL_SEARCH_MS
    [] kind = "fares" -> TTL_FARES_MS
    [] OTHER -> TTL_STATIONS_MS

\* cachedFetchJson returning null for a 2xx body that is not JSON.
cachedFetchJsonResult_NullOnBadJson(o) ==
  CASE o.kind \in {"ok", "badjson"} ->
         [ok |-> TRUE, json |-> o.doc, err |-> NoError]
    [] o.kind = "status" ->
         [ok |-> FALSE, json |-> JNull, err |-> StatusError(o.status)]
    [] OTHER -> [ok |-> FALSE, json |-> JNull, err |-> NoError]

\* Lines 62-70: what cachedFetchJson makes of the upstream's answer: the
\* JSON it returns, or the Error it throws (with .status only when the
\* non-2xx body text could be read).
cachedFetchJsonResult(o) ==
  CASE o.kind = "ok" -> [ok |-> TRUE, json |-> o.doc, err |-> NoError]
    [] o.kind = "status" ->
         [ok |-> FALSE, json |-> JNull, err |-> StatusError(o.status)]
    [] OTHER -> [ok |-> FALSE, json |-> JNull, err |-> NoError]

\* The handler's code after cachedFetchJson returned json: the proxies
\* answer and end (lines 121, 135, 156); /api/stations answers and starts
\* the write-through (lines 101-103); the refresh goes on to mkdir (86).
OnJson(i, kind, req, json, how) ==
  IF kind \in ProxyKinds
  THEN /\ tasks' = [tasks EXCEPT ![i] = IdleTask]
       /\ ev' = Response(kind, req, 200, json, how)
  ELSE /\ tasks' = [tasks EXCEPT ![i] =
                      [IdleTask EXCEPT !.kind = kind, !.pc = "mkdir",
                                       !.json = json]]
       /\ ev' = IF kind = "stations"
                THEN Response(kind, req, 200, json, how)
                ELSE NoEvent

\* The handler's catch block: the proxies answer e.status || 502 (lines
\* 122-125, 136-139, 157-160); /api/stations goes on to read the fallback
\* file (line 106); the refresh logs and ends (lines 89-91).
OnError(i, kind, req, e, how) ==
  CASE kind \in ProxyKinds ->
         /\ tasks' = [tasks EXCEPT ![i] = IdleTask]
         /\ ev' = Response(kind, req, ErrStatus(e), ErrBody(ErrMessage(kind)),
                           how)
    [] kind = "stations" ->
         /\ tasks' = [tasks EXCEPT ![i].pc = "readfile", ![i].err = e]
         /\ ev' = NoEvent
    [] OTHER ->
         /\ tasks' = [tasks EXCEPT ![i] = IdleTask]
         /\ ev' = [NoEvent EXCEPT !.type = "refreshFailed"]

\* cachedFetchJson up to its fetch (lines 55-58), run in slot i by a
\* handler of the given kind: a truthy cache hit is returned at once,
\* anything else issues the upstream GET.
Enter(i, kind, req) ==
  LET key == CacheKey(UrlOf(kind, req))
      hit == getCache(cache, key, now)
  IN  /\ cache' = getCacheMap(cache, key, now)
      /\ IF Truthy(hit)
         THEN OnJson(i, kind, req, hit, CacheHit)
         ELSE /\ tasks' = [tasks EXCEPT ![i] =
                             [IdleTask EXCEPT !.kind = kind, !.pc = "fetch",
                                              !.req = req]]
              /\ ev' = NoEvent

\* ------------------------------------------------------ stations mirror
StationDocs == {JArr(<<"s1">>), JArr(<<"s1", "s2">>), JNull}

\* What the remote can answer to a GET of url.
OutcomesFor(docs) ==
  {[kind |-> "ok", status |-> 200, doc |-> d] : d \in docs}
  \cup {[kind |-> "badjson", status |-> 200, doc |-> JNull]}
  \cup {[kind |-> k, status |-> s, doc |-> JNull] :
          k \in {"status", "bodyerr"}, s \in UpstreamStatuses}
  \cup {[kind |-> "neterr", status |-> 0, doc |-> JNull]}

\* writeFile(path, data) is called without options: the file is opened
\* with flag "w".
OpenFlagAppend == "a"

OpenFlag == "w"

\* The file once writeFile has opened it: created, and truncated under "w".
writeFileOpen(f) ==
  IF OpenFlag = "w" THEN [exists |-> TRUE, data |-> <<>>]
  ELSE [exists |-> TRUE, data |-> f.data]

\* The file once writeFile has written data through its own descriptor:
\* from offset 0 under "w" (what another writer left beyond the end of
\* data stays), at the end of the file under "a".
writeFileData(f, data) ==
  IF OpenFlag = "w"
  THEN [exists |-> TRUE,
        data |-> data \o SubSeq(f.data, Len(data) + 1, Len(f.data))]
  ELSE [exists |-> TRUE, data |-> f.data \o data]

\* Lines 105-110 without the fallback read.
FallbackResponse_NoFile(f, e, req, how) ==
  Response("stations", req, ErrStatus(e), ErrBody(ErrMessage("stations")),
           how)

\* Lines 105-110 answering 500 for the file error when the read fails.
FallbackResponse_FileStatus(f, e, req, how) ==
  IF f.exists /\ ParseOk(f.data)
  THEN Response("stations", req, 200, ParseVal(f.data), how)
  ELSE Response("stations", req, 500, ErrBody(ErrMessage("stations")), how)

\* Lines 105-110: the answer of /api/stations once the fetch has thrown e.
\* The catch of line 108 binds no error: a missing file, a failed read
\* and unparsable content all end on line 109.
FallbackResponse(f, e, req, how) ==
  IF f.exists /\ ParseOk(f.data)
  THEN Response("stations", req, 200, ParseVal(f.data), how)
  ELSE Response("stations", req, ErrStatus(e),
                ErrBody(ErrMessage("stations")), how)

\* Date.now() advances.
Tick ==
  /\ now < MaxTime
  /\ now' = now + 1
  /\ ev' = NoEvent
  /\ UNCHANGED <<cache, file, remoteDoc, tasks, nextDue, lastFetched,
                 fileWritten, ioFailed, row>>
  /\ UNCHANGED nonServer

\* The remote stations source publishes another document.
RemoteChange(d) ==
  /\ d # remoteDoc
  /\ remoteDoc' = d
  /\ ev' = NoEvent
  /\ row' = NoRow
  /\ UNCHANGED <<now, cache, file, tasks, nextDue, lastFetched,
                 fileWritten, ioFailed>>
  /\ UNCHANGED nonServer

\* refreshStationsBackground is entered (lines 83-85).
RefreshStart(i) ==
  /\ Enter(i, "refresh", NoQuery)
  /\ row' = IF AllIdle
            THEN [row EXCEPT !.cur = TRUE, !.curFresh = CacheAgrees,
                             !.curSecond = row.prev]
            ELSE NoRow

\* A setInterval tick (line 96).
TimerTick(i) ==
  /\ now >= nextDue
  /\ IsFree(i)
  /\ RefreshStart(i)
  /\ nextDue' = now + STATIONS_REFRESH_MS
  /\ UNCHANGED <<now, file, remoteDoc, lastFetched, fileWritten, ioFailed>>
  /\ UNCHANGED nonServer

\* GET /api/stations arrives (lines 98-100).
StationsRequest(i) ==
  /\ IsFree(i)
  /\ Enter(i, "stations", NoQuery)
  /\ row' = NoRow
  /\ UNCHANGED <<now, file, remoteDoc, nextDue, lastFetched, fileWritten,
                 ioFailed>>
  /\ UNCHANGED nonServer

\* The remote stations source answers the GET of slot i.
StationsRespond(i, o) ==
  /\ tasks[i].pc = "fetch"
  /\ tasks[i].kind \in {"stations", "refresh"}
  /\ o.kind = "ok" => o.doc = remoteDoc
  /\ tasks' = [tasks EXCEPT ![i].pc = "responded", ![i].out = o]
  /\ ev' = NoEvent
  /\ UNCHANGED <<now, cache, file, remoteDoc, nextDue, lastFetched,
                 fileWritten, ioFailed, row>>
  /\ UNCHANGED nonServer

\* cachedFetchJson resumes in slot i with the upstream's outcome o (lines
\* 62-70) and the handler runs on to its next await.
Settle(i, o) ==
  /\ LET t == tasks[i]
         r == cachedFetchJsonResult(o)
         mirror == t.kind \in {"stations", "refresh"}
     IN  IF r.ok
         THEN /\ cache' = putCache(cache, CacheKey(UrlOf(t.kind, t.req)),
                                   r.json, TtlOf(t.kind), now)
              /\ OnJson(i, t.kind, t.req, r.json, o)
              /\ lastFetched' = IF mirror THEN [any |-> TRUE, doc |-> r.json]
                                          ELSE lastFetched
              /\ row' = row
         ELSE /\ cache' = cache
              /\ OnError(i, t.kind, t.req, r.err, o)
              /\ lastFetched' = lastFetched
              /\ row' = IF t.kind = "refresh" THEN NoRow ELSE row
  /\ UNCHANGED <<now, file, remoteDoc, nextDue, fileWritten, ioFailed>>
  /\ UNCHANGED nonServer

\* The fetch of a mirror activation settles with the answer it was sent.
FetchSettle(i) ==
  /\ tasks[i].pc = "responded"
  /\ Settle(i, tasks[i].out)

\* /api/stations reads the fallback file and answers (lines 106-109).
ReadFile(i) ==
  /\ tasks[i].pc = "readfile"
  /\ ev' = FallbackResponse(file, tasks[i].err, tasks[i].req, tasks[i].out)
  /\ tasks' = [tasks EXCEPT ![i] = IdleTask]
  /\ UNCHANGED <<now, cache, file, remoteDoc, nextDue, lastFetched,
                 fileWritten, ioFailed, row>>
  /\ UNCHANGED nonServer

\* A failed local I/O step left as a rejection nobody handles.
IoFailure_Unhandled(i) ==
  /\ tasks' = [tasks EXCEPT ![i].pc = "rejected"]
  /\ ev' = NoEvent
  /\ ioFailed' = TRUE
  /\ row' = NoRow

\* A failed local I/O step ends the activation: the refresh logs it (lines
\* 89-91), the write-through of /api/stations swallows it (line 103).
IoFailure(i) ==
  /\ tasks' = [tasks EXCEPT ![i] = IdleTask]
  /\ ev' = IF tasks[i].kind = "refresh"
           THEN [NoEvent EXCEPT !.type = "refreshFailed"]
           ELSE NoEvent
  /\ ioFailed' = TRUE
  /\ row' = IF tasks[i].kind = "refresh" THEN NoRow ELSE row

\* mkdir(dataDir, {recursive: true}) settles (lines 86, 103).
Mkdir(i, ok) ==
  /\ tasks[i].pc = "mkdir"
  /\ IF ok
     THEN /\ tasks' = [tasks EXCEPT ![i].pc = "open"]
          /\ ev' = NoEvent
          /\ UNCHANGED <<ioFailed, row>>
     ELSE IoFailure(i)
  /\ UNCHANGED <<now, cache, file, remoteDoc, nextDue, lastFetched,
                 fileWritten>>
  /\ UNCHANGED nonServer

\* writeFile opens the fallback file with flag "w": created or truncated.
WriteOpen(i, ok) ==
  /\ tasks[i].pc = "open"
  /\ IF ok
     THEN /\ tasks' = [tasks EXCEPT ![i].pc = "write"]
          /\ file' = writeFileOpen(file)
          /\ ev' = NoEvent
          /\ UNCHANGED <<ioFailed, row>>
     ELSE /\ IoFailure(i)
          /\ file' = file
  /\ UNCHANGED <<now, cache, remoteDoc, nextDue, lastFetched, fileWritten>>
  /\ UNCHANGED nonServer

\* writeFile writes JSON.stringify(json) and resolves (lines 87, 103).
WriteData(i, ok) ==
  /\ tasks[i].pc = "write"
  /\ IF ok
     THEN LET written == writeFileData(file, Stringify(tasks[i].json))
              data == written.data
          IN  /\ file' = written
              /\ fileWritten' = TRUE
              /\ tasks' = [tasks EXCEPT ![i] = IdleTask]
              /\ ioFailed' = ioFailed
              /\ IF tasks[i].kind = "refresh"
                 THEN /\ ev' = [NoEvent EXCEPT
                                  !.type = "refreshed",
                                  !.second = row.cur /\ row.curSecond,
                                  !.prevFresh = row.prevFresh,
                                  !.prevData = row.prevData]
                      /\ row' = IF row.cur
                                THEN [NoRow EXCEPT !.prev = TRUE,
                                                   !.prevFresh = row.curFresh,
                                                   !.prevData = data]
                                ELSE NoRow
                 ELSE /\ ev' = NoEvent
                      /\ row' = row
     ELSE /\ IoFailure(i)
          /\ UNCHANGED <<file, fileWritten>>
  /\ UNCHANGED <<now, cache, remoteDoc, nextDue, lastFetched>>
  /\ UNCHANGED nonServer

\* The frontend before any of its functions has run.
NoNearby == [done |-> FALSE, center |-> [nan |-> FALSE, deg |-> 0],
             radius |-> 0, limit |-> 0, result |-> <<>>]
NoDoc == [present |-> FALSE, hasFares |-> FALSE, fares |-> <<>>]
NoCheapest == [done |-> FALSE, threw |-> FALSE, isNull |-> TRUE, idx |-> 0,
               p |-> 0, ticket |-> ""]
NoCompare == [pc |-> "idle", checked |-> <<>>, idx |-> 0, rows |-> <<>>,
              got |-> <<>>, runs |-> 0]

\* Line 50 (cache.stations is null) and no loadStations call made.
NoStationsCache == [set |-> FALSE, value |-> <<>>]
\* How many loadStations calls are made.
MaxLoads == 2
NoLoad == [pc |-> "idle"]
LoadIdle ==
  /\ stationsCache = NoStationsCache
  /\ loads = [i \in 1..MaxLoads |-> NoLoad]
  /\ lastRaw = [done |-> FALSE, raw |-> <<>>]

\* Line 47 (destOptions is empty) and no input event yet.
MaxSuggests == 2
NoSuggest == [pc |-> "idle", query |-> <<>>, local |-> <<>>]
NoInput == [any |-> FALSE, q |-> <<>>]
SuggestIdle ==
  /\ destOptions = <<>>
  /\ suggests = [i \in 1..MaxSuggests |-> NoSuggest]
  /\ lastQuery = NoInput

ClientIdle ==
  /\ LoadIdle
  /\ SuggestIdle
  /\ STATIONS = <<>>
  /\ nearby = NoNearby
  /\ faresJson = NoDoc
  /\ cheapest = NoCheapest
  /\ faresCache = EmptyMap
  /\ compare = NoCompare

\* The process has started: the cache is empty, the first refresh has
\* issued its GET (line 95), the timer is armed (line 96); the fallback
\* file is absent or left by an earlier process.
Init ==
  /\ now = 0
  /\ cache = EmptyMap
  /\ file \in {[exists |-> FALSE, data |-> <<>>]}
             \cup {[exists |-> TRUE, data |-> Stringify(d)] : d \in StationDocs}
  /\ remoteDoc \in StationDocs
  /\ tasks = [i \in Slots |->
               IF i = 1
               THEN [IdleTask EXCEPT !.kind = "refresh", !.pc = "fetch"]
               ELSE IdleTask]
  /\ nextDue = STATIONS_REFRESH_MS
  /\ ev = NoEvent
  /\ lastFetched = [any |-> FALSE, doc |-> JNull]
  /\ fileWritten = FALSE
  /\ ioFailed = FALSE
  /\ row = [NoRow EXCEPT !.cur = TRUE, !.curFresh = TRUE]
  /\ putLog = EmptyMap
  /\ ClientIdle

Next ==
  \/ Tick
  \/ \E d \in StationDocs : RemoteChange(d)
  \/ \E i \in Slots : TimerTick(i)
  \/ \E i \in Slots : StationsRequest(i)
  \/ \E i \in Slots : \E o \in OutcomesFor(StationDocs) : StationsRespond(i, o)
  \/ \E i \in Slots : FetchSettle(i)
  \/ \E i \in Slots : ReadFile(i)
  \/ \E i \in Slots : \E ok \in BOOLEAN : Mkdir(i, ok)
  \/ \E i \in Slots : \E ok \in BOOLEAN : WriteOpen(i, ok)
  \/ \E i \in Slots : \E ok \in BOOLEAN : WriteData(i, ok)

Spec == Init /\ [][Next]_vars

\* ------------------------------------------------------ proxy endpoints
SearchDocs == {JArr(<<"x1">>), JNull}
FareDocs == {JObj(<<"fares">>), JNull}

ProxyDocs(kind) == IF kind = "fares" THEN FareDocs ELSE SearchDocs

\* The query strings the requests are drawn from.
Terms == {Undefined, QStr(<<>>), QStr(<<" ">>), QStr(<<" ", "m">>)}
Origs == {Undefined, QStr(<<>>), QStr(<<"PAD">>)}
Dests == {Undefined, QStr(<<>>), QStr(<<"MAN">>)}
Rtns == {Undefined}

SearchQueries == {[NoQuery EXCEPT !.term = t] : t \in Terms}
FaresQueries ==
  {[NoQuery EXCEPT !.orig = o, !.dest = d, !.rtn = r] :
     o \in Origs, d \in Dests, r \in Rtns}

\* Line 145 with only orig tested.
FaresParamsMissing_OrigOnly(q) == ~QTruthy(q.orig)

\* !orig || !dest (line 145).
FaresParamsMissing(q) == (~QTruthy(q.orig)) \/ (~QTruthy(q.dest))

\* A handler that answers before any await (lines 117, 131, 145).
AnswerAtOnce(kind, q, status, body) ==
  /\ ev' = Response(kind, q, status, body, NotCalled)
  /\ UNCHANGED <<cache, tasks>>

\* GET /api/loc arrives (lines 115-120).
LocRequest(q) ==
  /\ IF Trim(TermOf(q)) = <<>>
     THEN AnswerAtOnce("loc", q, 200, JArr(<<>>))
     ELSE \E i \in Slots : IsFree(i) /\ Enter(i, "loc", q)
  /\ UNCHANGED <<now, file, remoteDoc, nextDue, lastFetched, fileWritten,
                 ioFailed, row>>
  /\ UNCHANGED nonServer

\* GET /api/railcards arrives (lines 129-134).
RailcardsRequest(q) ==
  /\ IF Trim(TermOf(q)) = <<>>
     THEN AnswerAtOnce("railcards", q, 200, JArr(<<>>))
     ELSE \E i \in Slots : IsFree(i) /\ Enter(i, "railcards", q)
  /\ UNCHANGED <<now, file, remoteDoc, nextDue, lastFetched, fileWritten,
                 ioFailed, row>>
  /\ UNCHANGED nonServer

\* GET /api/fares arrives (lines 143-155).
FaresRequest(q) ==
  /\ IF FaresParamsMissing(q)
     THEN AnswerAtOnce("fares", q, 400, ErrBody("orig and dest are required"))
     ELSE \E i \in Slots : IsFree(i) /\ Enter(i, "fares", q)
  /\ UNCHANGED <<now, file, remoteDoc, nextDue, lastFetched, fileWritten,
                 ioFailed, row>>
  /\ UNCHANGED nonServer

\* gw.brfares.com answers the GET of slot i and cachedFetchJson resumes.
\* (The answer depends on no state of the upstream, so it is drawn when
\* the fetch settles.)
ProxySettle(i, o) ==
  /\ tasks[i].pc = "fetch"
  /\ tasks[i].kind \in ProxyKinds
  /\ o \in OutcomesFor(ProxyDocs(tasks[i].kind))
  /\ Settle(i, o)

\* The proxy endpoints alone, after start-up: they share nothing with the
\* stations mirror but the Map, under keys of their own.
InitProxy ==
  /\ now = 0
  /\ cache = EmptyMap
  /\ file = [exists |-> FALSE, data |-> <<>>]
  /\ remoteDoc = JArr(<<"s1">>)
  /\ tasks = [i \in Slots |-> IdleTask]
  /\ nextDue = STATIONS_REFRESH_MS
  /\ ev = NoEvent
  /\ lastFetched = [any |-> FALSE, doc |-> JNull]
  /\ fileWritten = FALSE
  /\ ioFailed = FALSE
  /\ row = NoRow
  /\ putLog = EmptyMap
  /\ ClientIdle

NextProxy ==
  \/ Tick
  \/ \E q \in SearchQueries : LocRequest(q)
  \/ \E q \in SearchQueries : RailcardsRequest(q)
  \/ \E q \in FaresQueries : FaresRequest(q)
  \/ \E i \in Slots :
       \E o \in OutcomesFor(SearchDocs \cup FareDocs) : ProxySettle(i, o)

SpecProxy == InitProxy /\ [][NextProxy]_vars

\* ------------------------------------------- the cache, called directly
CacheUrls == {stationsRemote, LocUrl(<<"m">>)}
CacheValues == {JArr(<<"x1">>), JNull}

\* putCache(key, value, ttlMs) is called.
CachePut(url, v, ttl) ==
  /\ cache' = putCache(cache, CacheKey(url), v, ttl, now)
  /\ putLog' = [k \in (DOMAIN putLog) \cup {CacheKey(url)} |->
                  IF k = CacheKey(url)
                  THEN [at |-> now, ttl |-> ttl, value |-> v]
                  ELSE putLog[k]]
  /\ ev' = NoEvent
  /\ UNCHANGED <<now, file, remoteDoc, tasks, nextDue, lastFetched,
                 fileWritten, ioFailed, row>>
  /\ UNCHANGED clientVars

\* getCache(key) is called; the event holds what it returns.
CacheGet(url) ==
  /\ ev' = [NoEvent EXCEPT !.type = "get", !.url = url,
                           !.body = getCache(cache, CacheKey(url), now)]
  /\ cache' = getCacheMap(cache, CacheKey(url), now)
  /\ UNCHANGED <<now, file, remoteDoc, tasks, nextDue, lastFetched,
                 fileWritten, ioFailed, row>>
  /\ UNCHANGED nonServer

\* The server with nothing in flight, for the functions that are called
\* on their own.
ServerQuiet ==
  /\ now = 0
  /\ cache = EmptyMap
  /\ file = [exists |-> FALSE, data |-> <<>>]
  /\ remoteDoc = JArr(<<"s1">>)
  /\ tasks = [i \in Slots |-> IdleTask]
  /\ nextDue = STATIONS_REFRESH_MS
  /\ ev = NoEvent
  /\ lastFetched = [any |-> FALSE, doc |-> JNull]
  /\ fileWritten = FALSE
  /\ ioFailed = FALSE
  /\ row = NoRow

InitCache ==
  /\ ServerQuiet
  /\ putLog = EmptyMap
  /\ ClientIdle

NextCache ==
  \/ Tick
  \/ \E u \in CacheUrls : \E v \in CacheValues : \E ttl \in 1..MaxTtl :
       CachePut(u, v, ttl)
  \/ \E u \in CacheUrls : CacheGet(u)

SpecCache == InitCache /\ [][NextCache]_vars

\* --------------------------------------------------- claims: the cache
\* C1: getCache(k) after putCache(k, v, ttl), ttl > 0, returns v while
\* less than ttl has elapsed since the latest put on k (in particular at
\* once, and a later put replaces value and expiry), and returns a miss
\* (null) once ttl has elapsed.
C1_CacheRoundTrip ==
  (ev.type = "get" /\ CacheKey(ev.url) \in DOMAIN putLog)
  => LET p == putLog[CacheKey(ev.url)]
     IN  IF now - p.at >= p.ttl THEN ev.body = JNull ELSE ev.body = p.value

\* C13: getCache(key) returns a stored value only while the current time
\* is strictly less than the entry's expiry; at now = expiresAt and later
\* the entry is treated as absent.
C13_VisibleOnlyBeforeExpiry ==
  (ev.type = "get" /\ ev.body # JNull)
  => /\ CacheKey(ev.url) \in DOMAIN putLog
     /\ now < putLog[CacheKey(ev.url)].at + putLog[CacheKey(ev.url)].ttl

\* ------------------------------------------------ frontend: fare parsing
\* Longest fares list of a document.
MaxFares == 3

\* A JSON field of a fare: absent, a number, a string, or (price only)
\* an object with its own adult field.
FUndef == [t |-> "undef", n |-> 0]
FNull == [t |-> "null", n |-> 0]
FNum(n) == [t |-> "num", n |-> n]
FStr == [t |-> "str", n |-> 0]
PUndef == [t |-> "undef", n |-> 0, adult |-> FUndef]
PNum(n) == [t |-> "num", n |-> n, adult |-> FUndef]
PObj(a) == [t |-> "obj", n |-> 0, adult |-> a]

Fare(adult, price, ticket) ==
  [isNull |-> FALSE, adult |-> adult, price |-> price, ticket |-> ticket]
NullFare == [isNull |-> TRUE, adult |-> FUndef, price |-> PUndef,
             ticket |-> ""]

\* The elements fare lists are built from.
FareElems ==
  { Fare(FNum(4500), PUndef, "SVR"),
    Fare(FNum(3200), PUndef, "OFF"),
    Fare(FUndef, PObj(FNum(3200)), "ADV"),
    Fare(FUndef, PObj(FUndef), "OBJ"),
    Fare(FStr, PUndef, "STR"),
    Fare(FUndef, PNum(0), "ZER"),
    NullFare }

RECURSIVE SeqsUpTo(_, _)
SeqsUpTo(S, n) ==
  IF n = 0 THEN {<<>>}
  ELSE LET shorter == SeqsUpTo(S, n - 1)
       IN  shorter \cup {Append(q, x) : q \in shorter, x \in S}

FareDocuments ==
  {NoDoc, [present |-> TRUE, hasFares |-> FALSE, fares |-> <<>>]}
  \cup {[present |-> TRUE, hasFares |-> TRUE, fares |-> fs] :
          fs \in SeqsUpTo(FareElems, MaxFares)}

\* JS truthiness of a price field: objects and non-zero numbers.
PriceTruthy(pr) == pr.t = "obj" \/ (pr.t = "num" /\ pr.n # 0)

\* Line 190: (typeof f.adult === "number" ? f.adult
\*            : (f.price && f.price.adult)) ?? null
getPrice(f) ==
  LET inner == IF f.adult.t = "num" THEN f.adult
               ELSE IF PriceTruthy(f.price) THEN f.price.adult
               ELSE [t |-> f.price.t, n |-> f.price.n]
  IN  IF inner.t \in {"undef", "null"} THEN FNull ELSE inner

\* Array.prototype.sort with the comparator (a, b) => key(a) - key(b) is
\* stable: the permutation that orders the keys, equal keys keeping their
\* order.
Rank(keys, i) ==
  1 + Cardinality({j \in 1..Len(keys) :
                     keys[j] < keys[i] \/ (keys[j] = keys[i] /\ j < i)})
SortPerm(keys) ==
  [r \in 1..Len(keys) |-> CHOOSE i \in 1..Len(keys) : Rank(keys, i) = r]

\* Lines 188-197. The result names the chosen fare by its place in the
\* list; reading a field of a null element throws a TypeError.
parseCheapestFare(doc) ==
  IF ~doc.present \/ ~doc.hasFares THEN NoCheapest
  ELSE IF \E i \in 1..Len(doc.fares) : doc.fares[i].isNull
  THEN [NoCheapest EXCEPT !.threw = TRUE]
  ELSE LET fs == doc.fares
           withPrice == SelectSeq([i \in 1..Len(fs) |->
                                    [idx |-> i, p |-> getPrice(fs[i])]],
                                  LAMBDA e : e.p.t = "num")
           perm == SortPerm([i \in 1..Len(withPrice) |-> withPrice[i].p.n])
       IN  IF Len(withPrice) = 0 THEN NoCheapest
           ELSE LET first == withPrice[perm[1]]
                IN  [NoCheapest EXCEPT !.isNull = FALSE, !.idx = first.idx,
                                       !.p = first.p.n,
                                       !.ticket = fs[first.idx].ticket]

ParseCheapestFare ==
  /\ ~cheapest.done
  /\ cheapest' = [parseCheapestFare(faresJson) EXCEPT !.done = TRUE]
  /\ UNCHANGED <<serverVars, putLog, STATIONS, nearby, faresJson,
                 faresCache, compare, loadVars, suggestVars>>

InitFare ==
  /\ ServerQuiet
  /\ putLog = EmptyMap
  /\ STATIONS = <<>>
  /\ nearby = NoNearby
  /\ faresJson \in FareDocuments
  /\ cheapest = NoCheapest
  /\ faresCache = EmptyMap
  /\ compare = NoCompare
  /\ LoadIdle
  /\ SuggestIdle

NextFare == ParseCheapestFare

SpecFare == InitFare /\ [][NextFare]_vars

\* ------------------------------------------------ claims: fare parsing
\* A fare that carries a numeric adult price, and that price.
HasAdultPrice(f) ==
  /\ ~f.isNull
  /\ f.adult.t = "num" \/ (f.price.t = "obj" /\ f.price.adult.t = "num")
AdultPriceOf(f) == IF f.adult.t = "num" THEN f.adult.n ELSE f.price.adult.n

\* C7: for every fare document parseCheapestFare returns a fare whose
\* adult price is the minimum over the fares of the list that carry a
\* numeric adult price; a fare without one is never selected; the result
\* is null exactly when the list is missing or holds no such fare.
C7_CheapestIsMinAdultPrice ==
  cheapest.done =>
    LET fs == faresJson.fares
        priced == {i \in 1..Len(fs) : HasAdultPrice(fs[i])}
    IN  /\ ~cheapest.threw
        /\ cheapest.isNull
             <=> (~faresJson.present \/ ~faresJson.hasFares \/ priced = {})
        /\ ~cheapest.isNull =>
             /\ cheapest.idx \in priced
             /\ cheapest.p = AdultPriceOf(fs[cheapest.idx])
             /\ \A i \in priced : cheapest.p <= AdultPriceOf(fs[i])

\* --------------------------------------------- frontend: nearby stations
\* Longest station list and largest limit.
MaxStations == 3
MaxLimit == 3

\* Stations and centers lie on one meridian; a latitude is a whole number
\* of degrees, or a value that is not a number.
Lat(d) == [nan |-> FALSE, deg |-> d]
LatNaN == [nan |-> TRUE, deg |-> 0]
Station(crs, lat) == [crs |-> crs, lat |-> lat]

StationPool ==
  { Station("AAA", Lat(50)), Station("BBB", Lat(51)), Station("CCC", Lat(52)),
    Station("DDD", Lat(53)), Station("EEE", LatNaN) }
Centers == {Lat(51), LatNaN}

Abs(x) == IF x < 0 THEN 0 - x ELSE x

\* Line 76.
R == 6371

\* Lines 75-82 with dLon = 0: s1 = sin(dLat/2)^2, so c = |dLat| in
\* radians and the result is R * |dLat| * pi / 180, here in metres. An
\* operand that is not a number makes the result NaN.
haversine(a, b) ==
  IF a.nan \/ b.nan THEN [nan |-> TRUE, m |-> 0]
  ELSE [nan |-> FALSE,
        m |-> (R * Abs(b.deg - a.deg) * 31416) \div 1800]

\* Radii in metres: none, just under one degree, one degree, more.
Radii == {0, haversine(Lat(0), Lat(1)).m - 1, haversine(Lat(0), Lat(1)).m,
          250000}

WithinRadius_Strict(d, radius) == ~d.nan /\ d.m < radius

\* Line 95: s.distance <= radiusKm, false for NaN.
WithinRadius(d, radius) == ~d.nan /\ d.m <= radius

\* Array.prototype.slice(0, n) for n >= 0.
Slice0(q, n) == SubSeq(q, 1, IF n < Len(q) THEN n ELSE Len(q))

\* Lines 92-98. Each element keeps the place (idx) its station has in
\* STATIONS.
findNearbyStations(stations, center, radius, limit) ==
  LET withDist == [i \in 1..Len(stations) |->
                     [idx |-> i, crs |-> stations[i].crs,
                      lat |-> stations[i].lat,
                      distance |-> haversine(center, stations[i].lat)]]
      kept == SelectSeq(withDist, LAMBDA e : WithinRadius(e.distance, radius))
      perm == SortPerm([i \in 1..Len(kept) |-> kept[i].distance.m])
      sorted == [r \in 1..Len(kept) |-> kept[perm[r]]]
  IN  Slice0(sorted, limit)

FindNearbyStations ==
  /\ ~nearby.done
  /\ nearby' = [nearby EXCEPT
                  !.done = TRUE,
                  !.result = findNearbyStations(STATIONS, nearby.center,
                                                nearby.radius, nearby.limit)]
  /\ UNCHANGED <<serverVars, putLog, STATIONS, faresJson, cheapest,
                 faresCache, compare, loadVars, suggestVars>>

InitNearby ==
  /\ ServerQuiet
  /\ putLog = EmptyMap
  /\ STATIONS \in SeqsUpTo(StationPool, MaxStations)
  /\ \E c \in Centers : \E r \in Radii : \E l \in 0..MaxLimit :
       nearby = [NoNearby EXCEPT !.center = c, !.radius = r, !.limit = l]
  /\ faresJson = NoDoc
  /\ cheapest = NoCheapest
  /\ faresCache = EmptyMap
  /\ compare = NoCompare
  /\ LoadIdle
  /\ SuggestIdle

NextNearby == FindNearbyStations

SpecNearby == InitNearby /\ [][NextNearby]_vars

\* ------------------------------------------- claims: nearby stations
\* The places in STATIONS of the stations at most radius from center.
InRadius ==
  {i \in 1..Len(STATIONS) :
     LET d == haversine(nearby.center, STATIONS[i].lat)
     IN  ~d.nan /\ ~(d.m > nearby.radius)}
Returned == {nearby.result[r].idx : r \in 1..Len(nearby.result)}

\* C8: findNearbyStations returns only stations at most radiusKm from
\* center, in ascending order of distance, at most limit of them, and
\* the closest ones: no in-radius station left out is strictly closer
\* than a returned one, and all in-radius stations are returned when
\* they are fewer than limit.
C8_NearestWithinRadius ==
  nearby.done =>
    LET res == nearby.result
    IN  /\ \A r \in 1..Len(res) :
             /\ res[r].idx \in InRadius
             /\ res[r].crs = STATIONS[res[r].idx].crs
             /\ res[r].distance
                  = haversine(nearby.center, STATIONS[res[r].idx].lat)
        /\ \A r1, r2 \in 1..Len(res) :
             /\ r1 < r2 => res[r1].distance.m <= res[r2].distance.m
             /\ r1 # r2 => res[r1].idx # res[r2].idx
        /\ Len(res) <= nearby.limit
        /\ \A i \in InRadius \ Returned : \A r \in 1..Len(res) :
             ~(haversine(nearby.center, STATIONS[i].lat).m
                 < res[r].distance.m)
        /\ Cardinality(InRadius) < nearby.limit => Returned = InRadius
        /\ Cardinality(InRadius) >= nearby.limit => Len(res) = nearby.limit

\* A call that drops a farther in-radius station and returns one lying
\* exactly on the radius.
C8_Witness ==
  /\ nearby.done
  /\ Len(nearby.result) >= 2
  /\ \E r \in 1..Len(nearby.result) :
       nearby.result[r].distance.m = nearby.radius
  /\ InRadius \ Returned # {}

\* ---------------------------------------------- frontend: fare comparison
\* Longest list of ticked origins, and how many comparisons are started.
MaxChecked == 2
MaxRuns == 2

Origins == {"PAD", "EUS"}
destCRS == "MAN"

FaresOf(fs) == [present |-> TRUE, hasFares |-> TRUE, fares |-> fs]

\* What /api/fares may answer with a 2xx and a JSON body.
CompareDocs ==
  { FaresOf(<<Fare(FNum(4500), PUndef, "SVR"), Fare(FNum(3200), PUndef, "OFF")>>),
    FaresOf(<<Fare(FNum(4500), PUndef, "SVR")>>),
    FaresOf(<<Fare(FUndef, PObj(FNum(3200)), "ADV")>>),
    FaresOf(<<>>),
    FaresOf(<<Fare(FUndef, PNum(0), "ZER")>>),
    FaresOf(<<NullFare, Fare(FNum(3200), PUndef, "OFF")>>),
    NoDoc }

\* Line 224: JSON.stringify({orig, dest, ...opts}); the options are the
\* same in every comparison.
cacheKey(orig, dest) == <<orig, dest>>

\* What one origin of the list got: a thrown error, or a document.
Failed == [ok |-> FALSE, doc |-> NoDoc]
Got(doc) == [ok |-> TRUE, doc |-> doc]

\* Lines 279-294: the fares arrived; a row is pushed when
\* parseCheapestFare returns a fare, nothing when it returns null or
\* throws (line 295). pos is the place of the origin in the list.
AfterJson(c, doc) ==
  LET ch == parseCheapestFare(doc)
      pos == c.idx
      newRow == [pos |-> pos, origin |-> c.checked[pos], dest |-> destCRS,
                 ticket |-> ch.ticket, price |-> ch.p]
  IN  [c EXCEPT !.rows = IF ch.threw \/ ch.isNull THEN @
                         ELSE Append(@, newRow),
                !.got = Append(@, Got(doc)),
                !.idx = @ + 1]

\* Lines 295-297: getFares threw; the origin is skipped.
AfterThrow(c) == [c EXCEPT !.got = Append(@, Failed), !.idx = @ + 1]

\* Line 299.
SortRows(rows) ==
  LET perm == SortPerm([i \in 1..Len(rows) |-> rows[i].price])
  IN  [r \in 1..Len(rows) |-> rows[perm[r]]]

\* Lines 277-303 from the origin at c.idx on, up to the next GET: an
\* origin whose key is in cache.fares (line 225) is served from it
\* without a request.
RECURSIVE RunLoop(_, _)
RunLoop(c, fc) ==
  IF c.idx > Len(c.checked)
  THEN [c EXCEPT !.pc = "done", !.rows = SortRows(@)]
  ELSE LET key == cacheKey(c.checked[c.idx], destCRS)
       IN  IF key \in DOMAIN fc
           THEN RunLoop(AfterJson(c, fc[key]), fc)
           ELSE [c EXCEPT !.pc = "fetch"]

\* Lines 248-277: the form is submitted with the list of ticked origins;
\* an empty list is refused (line 252).
CompareStart(checked) ==
  /\ compare.pc \in {"idle", "done", "refused"}
  /\ compare.runs < MaxRuns
  /\ compare' =
       IF Len(checked) = 0
       THEN [compare EXCEPT !.pc = "refused", !.runs = @ + 1]
       ELSE RunLoop([pc |-> "loop", checked |-> checked, idx |-> 1,
                     rows |-> <<>>, got |-> <<>>,
                     runs |-> compare.runs + 1], faresCache)
  /\ UNCHANGED <<serverVars, putLog, STATIONS, nearby, faresJson, cheapest,
                 faresCache, loadVars, suggestVars>>

\* Lines 230-231: the GET of getFares settles: rejected, answered with a
\* non-2xx status, or answered 2xx.
CompareFetch(o) ==
  /\ compare.pc = "fetch"
  /\ compare' = IF o = "ok" THEN [compare EXCEPT !.pc = "body"]
                ELSE RunLoop(AfterThrow(compare), faresCache)
  /\ UNCHANGED <<serverVars, putLog, STATIONS, nearby, faresJson, cheapest,
                 faresCache, loadVars, suggestVars>>

\* Lines 232-234: res.json() throws ...
CompareBodyBad ==
  /\ compare.pc = "body"
  /\ compare' = RunLoop(AfterThrow(compare), faresCache)
  /\ UNCHANGED <<serverVars, putLog, STATIONS, nearby, faresJson, cheapest,
                 faresCache, loadVars, suggestVars>>

\* ... or yields the document, which is stored in cache.fares.
CompareBody(doc) ==
  /\ compare.pc = "body"
  /\ LET key == cacheKey(compare.checked[compare.idx], destCRS)
         fc == [k \in (DOMAIN faresCache) \cup {key} |->
                  IF k = key THEN doc ELSE faresCache[k]]
     IN  /\ faresCache' = fc
         /\ compare' = RunLoop(AfterJson(compare, doc), fc)
  /\ UNCHANGED <<serverVars, putLog, STATIONS, nearby, faresJson, cheapest,
                 loadVars, suggestVars>>

InitCompare ==
  /\ ServerQuiet
  /\ putLog = EmptyMap
  /\ ClientIdle

NextCompare ==
  \/ \E l \in SeqsUpTo(Origins, MaxChecked) : CompareStart(l)
  \/ \E o \in {"neterr", "status", "ok"} : CompareFetch(o)
  \/ CompareBodyBad
  \/ \E d \in CompareDocs : CompareBody(d)

SpecCompare == InitCompare /\ [][NextCompare]_vars

\* --------------------------------------------- claims: fare comparison
\* An origin yields a priced fare: its fetch returned a document with a
\* fares list holding a fare with a numeric adult price.
YieldsPricedFare(g) ==
  /\ g.ok
  /\ g.doc.present /\ g.doc.hasFares
  /\ \E i \in 1..Len(g.doc.fares) : HasAdultPrice(g.doc.fares[i])

\* C6: handleCompare never aborts on a partially failing origin set: the
\* result has exactly one row for each origin whose fetch succeeded and
\* yielded a priced fare, none for the others, in ascending order of
\* price; it is the empty list when no origin yields a priced fare.
C6_OneRowPerPricedOrigin ==
  compare.pc = "done" =>
    /\ Len(compare.got) = Len(compare.checked)
    /\ \A i \in 1..Len(compare.checked) :
         Cardinality({r \in 1..Len(compare.rows) : compare.rows[r].pos = i})
           = IF YieldsPricedFare(compare.got[i]) THEN 1 ELSE 0
    /\ \A r \in 1..Len(compare.rows) :
         compare.rows[r].origin = compare.checked[compare.rows[r].pos]
    /\ \A r1, r2 \in 1..Len(compare.rows) :
         r1 < r2 => compare.rows[r1].price <= compare.rows[r2].price

\* Every fare of the document is an object whose price field, if any, is
\* an object.
RegularFares(g) ==
  \A i \in 1..Len(g.doc.fares) :
    ~g.doc.fares[i].isNull /\ g.doc.fares[i].price.t # "num"

\* The same property for comparisons in which every document received
\* has regular fares.
C6_OneRowPerPricedOrigin_RegularFares ==
  (\A i \in 1..Len(compare.got) : RegularFares(compare.got[i]))
  => C6_OneRowPerPricedOrigin

\* ------------------------------------------------ frontend: loadStations
\* Longest raw station list.
MaxRaw == 2

\* The code of a raw entry: absent or a non-empty string.
NoCode == [def |-> FALSE, s |-> ""]
Code(c) == [def |-> TRUE, s |-> c]

RawEntry(crs, lat, long, lon) ==
  [isNull |-> FALSE, name |-> crs.s, crs |-> crs, lat |-> lat,
   long |-> long, lon |-> lon]
NullEntry ==
  [isNull |-> TRUE, name |-> "", crs |-> NoCode, lat |-> FUndef,
   long |-> FUndef, lon |-> FUndef]

\* The entries raw lists are built from: complete ones (two of them with
\* the same code), one whose longitude is under lon, one on the prime
\* meridian, one without code, one without latitude, and null.
RawPool ==
  { RawEntry(Code("PAD"), FNum(51), FNum(0 - 1), FUndef),
    RawEntry(Code("PAD"), FNum(53), FNum(1), FUndef),
    RawEntry(Code("EUS"), FNum(52), FUndef, FNum(2)),
    RawEntry(Code("GRN"), FNum(51), FNum(0), FUndef),
    RawEntry(NoCode, FNum(51), FNum(1), FUndef),
    RawEntry(Code("KGX"), FUndef, FNum(1), FUndef),
    NullEntry }
RawLists == SeqsUpTo(RawPool, MaxRaw)

\* JS truthiness of a field that is absent or a number.
FieldTruthy(f) == f.t = "num" /\ f.n # 0

\* Line 69: s.crs && s.lat && s.long.
Keeps(e) == e.crs.def /\ FieldTruthy(e.lat) /\ FieldTruthy(e.long)

\* Line 70: {name: s.name, crs: s.crs, lat: s.lat, lon: s.long || s.lon}.
Project(e) ==
  [name |-> e.name, crs |-> e.crs.s, lat |-> e.lat,
   lon |-> IF FieldTruthy(e.long) THEN e.long ELSE e.lon]

\* Lines 69-70; reading a field of a null entry throws.
FilterThrows(raw) == \E i \in 1..Len(raw) : raw[i].isNull
FilterMap(raw) ==
  LET kept == SelectSeq(raw, Keeps)
  IN  [i \in 1..Len(kept) |-> Project(kept[i])]

\* The click handler calls loadStations while STATIONS is empty (lines
\* 311-312); lines 62-66: the cached directory is taken, or the GET of
\* /api/stations is issued.
LoadStart(i) ==
  /\ loads[i].pc = "idle"
  /\ \A j \in 1..(i - 1) : loads[j].pc # "idle"
  /\ Len(STATIONS) = 0
  /\ IF stationsCache.set
     THEN /\ STATIONS' = stationsCache.value
          /\ loads' = [loads EXCEPT ![i].pc = "done"]
     ELSE /\ STATIONS' = STATIONS
          /\ loads' = [loads EXCEPT ![i].pc = "fetch"]
  /\ UNCHANGED <<serverVars, putLog, nearby, faresJson, cheapest,
                 faresCache, compare, stationsCache, lastRaw,
                 suggestVars>>

\* Lines 66-67: the GET settles: rejected, non-2xx (throws), or 2xx.
LoadFetch(i, o) ==
  /\ loads[i].pc = "fetch"
  /\ loads' = [loads EXCEPT ![i].pc = IF o = "ok" THEN "body" ELSE "failed"]
  /\ UNCHANGED <<serverVars, putLog, STATIONS, nearby, faresJson, cheapest,
                 faresCache, compare, stationsCache, lastRaw,
                 suggestVars>>

\* Line 68 throws (the body is not JSON), or line 69 does (the body is
\* no array, or holds null).
LoadBodyBad(i) ==
  /\ loads[i].pc = "body"
  /\ loads' = [loads EXCEPT ![i].pc = "failed"]
  /\ UNCHANGED <<serverVars, putLog, STATIONS, nearby, faresJson, cheapest,
                 faresCache, compare, stationsCache, lastRaw,
                 suggestVars>>

\* Lines 68-71: the raw list arrives, is filtered and projected, and
\* becomes STATIONS and cache.stations.
LoadBody(i, raw) ==
  /\ loads[i].pc = "body"
  /\ IF FilterThrows(raw)
     THEN /\ loads' = [loads EXCEPT ![i].pc = "failed"]
          /\ UNCHANGED <<STATIONS, stationsCache, lastRaw>>
     ELSE /\ STATIONS' = FilterMap(raw)
          /\ stationsCache' = [set |-> TRUE, value |-> FilterMap(raw)]
          /\ lastRaw' = [done |-> TRUE, raw |-> raw]
          /\ loads' = [loads EXCEPT ![i].pc = "done"]
  /\ UNCHANGED <<serverVars, putLog, nearby, faresJson, cheapest,
                 faresCache, compare, suggestVars>>

InitLoad ==
  /\ ServerQuiet
  /\ putLog = EmptyMap
  /\ ClientIdle

NextLoad ==
  \/ \E i \in 1..MaxLoads : LoadStart(i)
  \/ \E i \in 1..MaxLoads : \E o \in {"neterr", "status", "ok"} :
       LoadFetch(i, o)
  \/ \E i \in 1..MaxLoads : LoadBodyBad(i)
  \/ \E i \in 1..MaxLoads : \E raw \in RawLists : LoadBody(i, raw)

SpecLoad == InitLoad /\ [][NextLoad]_vars

\* ------------------------------------------------ claims: loadStations
\* The entry has a code, a latitude, and a longitude under long or lon.
HasCodeAndCoordinates(e) ==
  /\ ~e.isNull
  /\ e.crs.def
  /\ e.lat.t = "num"
  /\ e.long.t = "num" \/ e.lon.t = "num"

\* C14: after loadStations the directory holds, in order, one station
\* for every entry of the raw list that has a code, a latitude and a
\* longitude (whatever their values, under either field name) and none
\* for any other entry.
C14_LoadKeepsCompleteEntries ==
  lastRaw.done =>
    LET want == SelectSeq(lastRaw.raw, HasCodeAndCoordinates)
    IN  /\ Len(STATIONS) = Len(want)
        /\ \A i \in 1..Len(want) :
             /\ STATIONS[i].crs = want[i].crs.s
             /\ STATIONS[i].lat = want[i].lat
             /\ STATIONS[i].lon
                  = IF want[i].long.t = "num" THEN want[i].long
                                              ELSE want[i].lon

\* C15: after a station load no two stations of STATIONS have the same
\* code.
C15_CodesUnique ==
  lastRaw.done =>
    \A i, j \in 1..Len(STATIONS) :
      i # j => STATIONS[i].crs # STATIONS[j].crs

\* --------------------------------------- frontend: destination suggestions
\* Strings are sequences of characters here, because the code takes their
\* length, lower-cases them and searches them.
toLowerCase(s) ==
  LET lower(c) ==
        CASE c = "P" -> "p" [] c = "A" -> "a" [] c = "D" -> "d"
          [] c = "E" -> "e" [] c = "U" -> "u" [] c = "S" -> "s"
          [] c = "K" -> "k" [] c = "G" -> "g" [] c = "X" -> "x"
          [] OTHER -> c
  IN  [i \in 1..Len(s) |-> lower(s[i])]
startsWith(s, q) == Len(q) <= Len(s) /\ SubSeq(s, 1, Len(q)) = q
includes(s, q) ==
  \E k \in 0..(Len(s) - Len(q)) : SubSeq(s, k + 1, k + Len(q)) = q

\* The directory once loaded (name and code of each station), line 46.
SuggestStations ==
  << [name |-> <<"P", "a", "d">>, crs |-> <<"P", "A", "D">>],
     [name |-> <<"E", "u", "s">>, crs |-> <<"E", "U", "S">>] >>

\* What the user may have typed when an input event fires (line 334).
Queries == {<<>>, <<"p">>, <<"p", "a">>, <<"E", "U">>, <<"k", "g">>}

\* Line 126: !query || query.length < 2.
TooShort(query) == Len(query) < 2

\* Lines 131-135.
LocalSuggestions(stations, query) ==
  LET q == toLowerCase(query)
      hit == SelectSeq(stations,
               LAMBDA st : \/ includes(toLowerCase(st.name), q)
                           \/ startsWith(toLowerCase(st.crs), q))
      first == Slice0(hit, 10)
  IN  [i \in 1..Len(first) |-> [name |-> first[i].name, crs |-> first[i].crs]]

\* The JSON bodies /api/loc may answer with: null, an object that is no
\* array, or an array of {location, code}.
SuggestDocs ==
  LET PadItem == [location |-> <<"P", "a", "d">>, code |-> <<"P", "A", "D">>]
      KgxItem == [location |-> <<"K", "g", "x">>, code |-> <<"K", "G", "X">>]
  IN  {[t |-> "null", items |-> <<>>], [t |-> "obj", items |-> <<>>]}
      \cup {[t |-> "arr", items |-> l] :
              l \in {<<>>, <<PadItem>>, <<KgxItem>>, <<KgxItem, PadItem>>}}

\* Line 141: (js || []).map(...); a truthy value without map throws
\* inside the try, and the catch of line 143 leaves remote empty.
RemoteSuggestions(js) ==
  IF js.t = "arr"
  THEN [i \in 1..Len(js.items) |->
          [name |-> js.items[i].location, crs |-> js.items[i].code]]
  ELSE <<>>

\* Lines 144-145: the Map keeps the first item of each code, in order.
RECURSIVE FirstByCrs(_, _)
FirstByCrs(items, acc) ==
  IF items = <<>>
  THEN acc
  ELSE LET it == Head(items)
       IN  FirstByCrs(Tail(items),
             IF \E k \in 1..Len(acc) : acc[k].crs = it.crs
             THEN acc
             ELSE Append(acc, it))

\* Lines 144-146: the merged list, cut to twelve.
MergeSuggestions(local, remote) ==
  Slice0(FirstByCrs(local \o remote, <<>>), 12)

\* Lines 333-336 and 125-138: an input event calls suggestDestinations
\* with the field's value. A short query empties destOptions at once;
\* otherwise local is computed and the GET of /api/loc is issued.
SuggestInput(i, query) ==
  /\ suggests[i].pc = "idle"
  /\ \A j \in 1..(i - 1) : suggests[j].pc # "idle"
  /\ lastQuery' = [any |-> TRUE, q |-> query]
  /\ IF TooShort(query)
     THEN /\ destOptions' = <<>>
          /\ suggests' = suggests
     ELSE /\ suggests' = [suggests EXCEPT ![i] =
                            [pc |-> "fetch", query |-> query,
                             local |-> LocalSuggestions(STATIONS, query)]]
          /\ destOptions' = destOptions
  /\ UNCHANGED <<serverVars, putLog, STATIONS, nearby, faresJson, cheapest,
                 faresCache, compare, loadVars>>

\* Lines 144-146 for the call in slot i.
SuggestFinish(i, remote) ==
  /\ destOptions' = MergeSuggestions(suggests[i].local, remote)
  /\ suggests' = [suggests EXCEPT ![i] = NoSuggest]
  /\ UNCHANGED lastQuery

\* Lines 138-139 and 143: the GET settles: rejected (caught), not ok
\* (remote stays empty), or ok (the body is awaited).
SuggestFetch(i, o) ==
  /\ suggests[i].pc = "fetch"
  /\ IF o = "ok"
     THEN /\ suggests' = [suggests EXCEPT ![i].pc = "body"]
          /\ UNCHANGED <<destOptions, lastQuery>>
     ELSE SuggestFinish(i, <<>>)
  /\ UNCHANGED <<serverVars, putLog, STATIONS, nearby, faresJson, cheapest,
                 faresCache, compare, loadVars>>

\* Line 140 throws (the body is not JSON); line 143 catches.
SuggestBodyBad(i) ==
  /\ suggests[i].pc = "body"
  /\ SuggestFinish(i, <<>>)
  /\ UNCHANGED <<serverVars, putLog, STATIONS, nearby, faresJson, cheapest,
                 faresCache, compare, loadVars>>

\* Lines 140-146: the body arrives and destOptions is assigned.
SuggestBody(i, js) ==
  /\ suggests[i].pc = "body"
  /\ SuggestFinish(i, RemoteSuggestions(js))
  /\ UNCHANGED <<serverVars, putLog, STATIONS, nearby, faresJson, cheapest,
                 faresCache, compare, loadVars>>

\* The page with the directory not yet loaded, or loaded.
InitSuggest ==
  /\ ServerQuiet
  /\ putLog = EmptyMap
  /\ LoadIdle
  /\ SuggestIdle
  /\ STATIONS \in {<<>>, SuggestStations}
  /\ nearby = NoNearby
  /\ faresJson = NoDoc
  /\ cheapest = NoCheapest
  /\ faresCache = EmptyMap
  /\ compare = NoCompare

NextSuggest ==
  \/ \E i \in 1..MaxSuggests : \E query \in Queries : SuggestInput(i, query)
  \/ \E i \in 1..MaxSuggests : \E o \in {"neterr", "status", "ok"} :
       SuggestFetch(i, o)
  \/ \E i \in 1..MaxSuggests : SuggestBodyBad(i)
  \/ \E i \in 1..MaxSuggests : \E js \in SuggestDocs : SuggestBody(i, js)

SpecSuggest == InitSuggest /\ [][NextSuggest]_vars

\* ------------------------------------- claims: destination suggestions
\* No suggestDestinations call is awaiting its response or its body.
AllSettled == \A i \in 1..MaxSuggests : suggests[i].pc = "idle"

\* What suggestDestinations computes for a query, over every answer its
\* request may get.
SuggestionsFor(stations, query) ==
  IF TooShort(query)
  THEN {<<>>}
  ELSE {MergeSuggestions(LocalSuggestions(stations, query), remote) :
          remote \in {<<>>} \cup {RemoteSuggestions(js) : js \in SuggestDocs}}

\* C22: under every interleaving of the suggestDestinations calls started
\* by successive input events, once all pending suggestion requests have
\* settled, destOptions holds the suggestions computed for the most
\* recently entered query (a list suggestDestinations yields for that
\* query), never those of an earlier query whose response arrived later.
C22_SuggestionsFollowLatestInput ==
  (AllSettled /\ lastQuery.any) =>
    destOptions \in SuggestionsFor(STATIONS, lastQuery.q)

\* ------------------------------------------------- claims: the proxies
\* C2: every answer to a GET /api/fares whose orig or dest is missing or
\* empty is HTTP 400 with body {error: "orig and dest are required"}, and
\* the step that gives it issues no upstream request (no activation is
\* started, no cachedFetchJson call is made) and leaves the cache as it was.
C2_FaresValidation ==
  [][(/\ ev'.type = "response"
      /\ ev'.kind = "fares"
      /\ \/ ~ev'.req.orig.def
         \/ ev'.req.orig.s = <<>>
         \/ ~ev'.req.dest.def
         \/ ev'.req.dest.s = <<>>)
     => (/\ ev'.status = 400
         /\ ev'.body = JObj(<<"error", "orig and dest are required">>)
         /\ ev'.fetch = "none"
         /\ cache' = cache
         /\ tasks' = tasks)]_vars

C2_Witness ==
  /\ ev.type = "response"
  /\ ev.kind = "fares"
  /\ ev.req.orig = QStr(<<"PAD">>)
  /\ ev.req.dest = QStr(<<>>)
  /\ ev.status = 400
  /\ cache # EmptyMap
  /\ \E i \in Slots : tasks[i].pc = "fetch"

\* The term is absent, empty or made of white space only.
Blank(p) == (~p.def) \/ (\A k \in 1..Len(p.s) : p.s[k] = " ")

\* C3: every answer of /api/loc and /api/railcards to a term that is
\* absent, empty or white space only is a 200 with the empty array, given
\* in a step that starts no upstream request, makes no cachedFetchJson
\* call (no cache read) and leaves the cache as it was.
C3_BlankTerm ==
  [][(/\ ev'.type = "response"
      /\ ev'.kind \in {"loc", "railcards"}
      /\ Blank(ev'.req.term))
     => (/\ ev'.status = 200
         /\ ev'.body = JArr(<<>>)
         /\ ev'.fetch = "none"
         /\ cache' = cache
         /\ tasks' = tasks)]_vars

C3_Witness ==
  /\ ev.type = "response"
  /\ ev.kind = "railcards"
  /\ ev.req.term = QStr(<<" ">>)
  /\ ev.status = 200
  /\ ev.body = JArr(<<>>)
  /\ cache # EmptyMap

\* C5: whenever the upstream fetch of a /api/loc, /api/railcards or
\* /api/fares handler settles, the handler answers and ends in that step;
\* when the fetch failed (non-2xx response with status s, network error
\* before or during the body, unparsable body) the answer is a JSON error
\* body, with status s for a received non-2xx response and 502 otherwise.
C5_FailureAnswered ==
  [][\A i \in Slots :
       (/\ tasks[i].pc = "fetch"
        /\ tasks[i].kind \in ProxyKinds
        /\ tasks'[i] # tasks[i])
       => (/\ tasks'[i] = IdleTask
           /\ ev'.type = "response"
           /\ ev'.kind = tasks[i].kind
           /\ ev'.req = tasks[i].req
           /\ ev'.fetch \in {"ok", "status", "bodyerr", "neterr", "badjson"}
           /\ ev'.fetch # "ok"
              => (/\ ev'.body.t = "obj"
                  /\ ev'.body.a[1] = "error"
                  /\ ev'.status = IF ev'.fetch = "status"
                                  THEN ev'.ustatus
                                  ELSE 502))]_vars

C5_Witness ==
  /\ ev.type = "response"
  /\ ev.kind = "fares"
  /\ ev.fetch = "status"
  /\ ev.status = 503
  /\ ev.body = JObj(<<"error", "Failed to fetch fares">>)

\* The cache holds an entry for the url whose expiry lies ahead.
HoldsUnexpired(c, url, t) ==
  CacheKey(url) \in DOMAIN c /\ t < c[CacheKey(url)].expires

\* C12: a miss differs from a stored falsy value, so cachedFetchJson
\* serves a cached null and does not contact upstream while the entry
\* is unexpired: no step starts an upstream GET for a url whose entry
\* is unexpired.
C12_CachedNullServed ==
  [][\A i \in Slots :
       (tasks[i].pc # "fetch" /\ tasks'[i].pc = "fetch")
       => ~HoldsUnexpired(cache, UrlOf(tasks'[i].kind, tasks'[i].req), now)
    ]_vars

\* A request of a proxy endpoint is answered from the cache in this step.
ServedFromCache ==
  ev'.type = "response" /\ ev'.kind \in ProxyKinds /\ ev'.fetch = "hit"

\* Slot i issues an upstream GET of a proxy endpoint in this step.
ProxyFetchStarts(i) ==
  /\ tasks[i].pc # "fetch"
  /\ tasks'[i].pc = "fetch"
  /\ tasks'[i].kind \in ProxyKinds

\* Before the TTL has elapsed no request contacts upstream.
C17_NoFetchBeforeTtl ==
  \A i \in Slots :
    ProxyFetchStarts(i)
    => ~HoldsUnexpired(cache, UrlOf(tasks'[i].kind, tasks'[i].req), now)

\* A request is answered from the cache only before the TTL has elapsed,
\* and then with the stored body.
C17_HitOnlyBeforeTtl ==
  ServedFromCache
  => /\ HoldsUnexpired(cache, UrlOf(ev'.kind, ev'.req), now)
     /\ ev'.body = cache[CacheKey(UrlOf(ev'.kind, ev'.req))].value

\* The body stored by a successful fetch stays until its TTL has elapsed.
C17_BodyKept ==
  \A k \in DOMAIN cache :
    now < cache[k].expires
    => k \in DOMAIN cache' /\ cache'[k].value = cache[k].value

\* C17: after a proxy's upstream fetch for a url succeeded, every later
\* request for that url before the resource's TTL has elapsed is answered
\* with the same body without contacting upstream, and the first request
\* after the TTL has elapsed contacts upstream again.
C17_ReuseWithinTtl ==
  [][C17_NoFetchBeforeTtl /\ C17_HitOnlyBeforeTtl /\ C17_BodyKept]_vars

\* C18: concurrent identical fetches are not deduplicated: a request
\* that is not answered in its own step issues its own upstream GET,
\* also while another GET of the same url is in flight, and every fetch
\* that succeeds stores its own result in the cache when it completes.
C18_NoDeduplication ==
  [][\A i \in Slots :
       /\ (tasks[i].kind = "idle" /\ tasks'[i].kind \in ProxyKinds)
            => tasks'[i].pc = "fetch"
       /\ (/\ tasks[i].pc = "fetch"
           /\ tasks[i].kind \in ProxyKinds
           /\ tasks'[i] # tasks[i]
           /\ ev'.fetch = "ok")
            => LET key == CacheKey(UrlOf(tasks[i].kind, tasks[i].req))
               IN  /\ key \in DOMAIN cache'
                   /\ cache'[key] = [value |-> ev'.body,
                                     expires |-> now + TtlOf(tasks[i].kind)]
    ]_vars

\* Of two requests for one uncached url, both started before either
\* fetch completed, one has just completed and stored its result while
\* the GET of the other is still in flight.
C18_Witness ==
  /\ ev.type = "response"
  /\ ev.kind = "loc"
  /\ ev.fetch = "ok"
  /\ ev.body = JArr(<<"x1">>)
  /\ cache[CacheKey(UrlOf("loc", ev.req))].value = ev.body
  /\ cache[CacheKey(UrlOf("loc", ev.req))].expires = now + TTL_SEARCH_MS
  /\ \E j \in Slots :
       /\ tasks[j].pc = "fetch"
       /\ tasks[j].kind = "loc"
       /\ UrlOf("loc", tasks[j].req) = UrlOf("loc", ev.req)

\* The kind of handler that fetches the url of an endpoint.
KindOfEndpoint(ep) ==
  CASE ep = "legacy_ac_loc" -> "loc"
    [] ep = "legacy_ac_rlc" -> "railcards"
    [] ep = "legacy_querysimple" -> "fares"
    [] OTHER -> "stations"

\* In this step the fetch of slot i, made for the url of key k, ends
\* with a 2xx and a JSON document, which is now the value under k.
StoredByFetch(i, k) ==
  /\ tasks[i].pc = "fetch"
  /\ tasks'[i] = IdleTask
  /\ k = [prefix |-> "fetch:", url |-> UrlOf(tasks[i].kind, tasks[i].req)]
  /\ ev'.type = "response"
  /\ ev'.fetch = "ok"
  /\ ev'.status = 200
  /\ ev'.body \in ProxyDocs(tasks[i].kind)
  /\ cache'[k].value = ev'.body

\* In this step a request reads the cache under key k.
ReadByRequest(i, k) ==
  /\ tasks[i].kind = "idle"
  /\ tasks'[i].kind \in ProxyKinds
  /\ k = [prefix |-> "fetch:", url |-> UrlOf(tasks'[i].kind, tasks'[i].req)]

\* C21: every cache entry under the key of a url holds a document that
\* upstream returned for that url with a 2xx status; an entry is created
\* or replaced only by a successful fetch of its url, a failed fetch
\* stores nothing, and an entry disappears only when a read of its own
\* key finds it expired.
C21_CacheEntriesFromFetches ==
  [][/\ \A k \in DOMAIN cache :
          /\ k.prefix = "fetch:"
          /\ cache[k].value \in ProxyDocs(KindOfEndpoint(k.url.ep))
     /\ \A k \in DOMAIN cache' :
          (k \notin DOMAIN cache \/ cache'[k] # cache[k])
          => \E i \in Slots : StoredByFetch(i, k)
     /\ \A k \in (DOMAIN cache) \ (DOMAIN cache') :
          /\ now >= cache[k].expires
          /\ \E i \in Slots : ReadByRequest(i, k)
     /\ \A i \in Slots :
          (/\ tasks[i].pc = "fetch"
           /\ tasks'[i] # tasks[i]
           /\ ev'.fetch \in {"status", "bodyerr", "neterr", "badjson"})
          => cache' = cache
    ]_vars

\* A fetch has just failed and stored nothing while the cache holds the
\* documents of two other urls, one of them past its expiry and unread.
C21_Witness ==
  /\ ev.type = "response"
  /\ ev.kind = "loc"
  /\ ev.fetch = "badjson"
  /\ Cardinality(DOMAIN cache) = 2
  /\ CacheKey(LocUrl(<<"m">>)) \notin DOMAIN cache
  /\ \E k \in DOMAIN cache : now > cache[k].expires

\* ------------------------------------------------- claims: the mirror
\* The cachedFetchJson call of the answered request threw.
FetchFailed == ev.fetch \in {"status", "bodyerr", "neterr", "badjson"}

\* C4: when /api/stations finds no usable cache entry, its remote fetch
\* fails (network error, non-2xx, unreadable or unparsable body) and the
\* fallback file exists with valid JSON content, the answer has status
\* 200 and its body is exactly the content of the file.
C4_FallbackServed ==
  (/\ ev.type = "response"
   /\ ev.kind = "stations"
   /\ FetchFailed
   /\ file.exists
   /\ ParseOk(file.data))
  => (ev.status = 200 /\ Stringify(ev.body) = file.data)

C4_Witness ==
  /\ ev.type = "response"
  /\ ev.kind = "stations"
  /\ ev.fetch = "neterr"
  /\ file.exists
  /\ file.data = <<"[", "s1", "s2", "]">>
  /\ ev.status = 200
  /\ ev.body = JArr(<<"s1", "s2">>)

\* No activation is between its successful fetch and the end of its write.
NoWritePending ==
  \A i \in Slots : tasks[i].pc \notin {"mkdir", "open", "write"}

\* C9: once the fallback file has been written at least once and no write
\* is pending, its content is the result of the most recent successful
\* remote stations fetch (stated here for the runs in which no local
\* mkdir / writeFile has failed).
C9_FileIsLatestFetch ==
  (fileWritten /\ ~ioFailed /\ NoWritePending)
  => (file.exists /\ file.data = Stringify(lastFetched.doc))

\* C10 as stated: when two refresh runs follow one another with nothing
\* else running and the remote document unchanged from the start of the
\* first to the end of the second, and both write the file, the file
\* content after the second is its content after the first.
C10_RefreshTwiceSameFile ==
  (ev.type = "refreshed" /\ ev.second) => file.data = ev.prevData

\* C10 amended: the same, provided that at the start of the first run the
\* cache held no usable stations entry or held the document the remote
\* source serves.
C10_RefreshTwiceSameFile_FreshCache ==
  (ev.type = "refreshed" /\ ev.second /\ ev.prevFresh)
  => file.data = ev.prevData

C10_Witness ==
  /\ ev.type = "refreshed"
  /\ ev.second
  /\ ev.prevFresh
  /\ ev.prevData = <<"[", "s1", "s2", "]">>
  /\ file.data = <<"[", "s1", "s2", "]">>

\* C11: when the fetch of /api/stations fails and the fallback file
\* cannot be read or parsed, the answer is the JSON error body with the
\* status of the remote failure, 502 when that failure carries none.
C11_FallbackFailsUpstreamStatus ==
  (/\ ev.type = "response"
   /\ ev.kind = "stations"
   /\ FetchFailed
   /\ ~(file.exists /\ ParseOk(file.data)))
  => /\ ev.body = ErrBody("Failed to retrieve stations")
     /\ ev.status = IF ev.fetch = "status" THEN ev.ustatus ELSE 502

C11_Witness ==
  /\ ev.type = "response"
  /\ ev.kind = "stations"
  /\ ev.fetch = "status"
  /\ ev.ustatus = 404
  /\ file.exists
  /\ ~ParseOk(file.data)
  /\ ev.status = 404
\* Slot i starts an activation of the stations mirror in this step.
MirrorStarts(i) ==
  tasks[i].kind = "idle" /\ tasks'[i].kind \in {"stations", "refresh"}

\* The three parts of C16 for entries whose value satisfies Usable.
SourcePriority(Usable(_)) ==
  \A i \in Slots :
    LET key == CacheKey(stationsRemote)
        held == /\ HoldsUnexpired(cache, stationsRemote, now)
                /\ Usable(cache[key].value)
    IN  /\ (MirrorStarts(i) /\ held) => tasks'[i].pc # "fetch"
        /\ (MirrorStarts(i) /\ held /\ tasks'[i].kind = "stations")
             => /\ ev'.type = "response"
                /\ ev'.status = 200
                /\ ev'.body = cache[key].value
        /\ tasks'[i].pc = "readfile"
             => tasks'[i].out.kind \in {"status", "bodyerr", "neterr", "badjson"}

AnyValue(v) == TRUE

\* C16: the stations sources are consulted in the order cache, remote,
\* file: an activation contacts the remote only when the cache holds no
\* unexpired stations entry, /api/stations answers with the cached value
\* while one exists, and it reads the file only after its fetch failed.
C16_SourcePriority == [][SourcePriority(AnyValue)]_vars

\* The same for cached values that are truthy.
C16_SourcePriority_TruthyEntry == [][SourcePriority(Truthy)]_vars
\* The file begins with the document.
StartsWith(f, doc) ==
  /\ f.exists
  /\ Len(f.data) >= Len(doc)
  /\ SubSeq(f.data, 1, Len(doc)) = doc

\* C19: a refresh starts at every timer tick (and at process start); a
\* refresh that fails at its fetch, mkdir or writeFile ends there, with
\* the failure logged and the timer as it was; a refresh that succeeds
\* writes its document to the fallback file; and whenever the clock has
\* reached the timer's due time the next tick can start a refresh.
C19_RefreshFailureAbsorbed ==
  [][/\ nextDue' # nextDue
        => /\ now >= nextDue
           /\ Cardinality({i \in Slots : /\ tasks[i].kind = "idle"
                                         /\ tasks'[i].kind = "refresh"}) = 1
     /\ \A i \in Slots :
          (tasks[i].kind = "refresh" /\ tasks'[i] # tasks[i])
          => /\ nextDue' = nextDue
             /\ \/ /\ tasks'[i].kind = "refresh"
                   /\ tasks'[i].pc \in {"responded", "mkdir", "open", "write"}
                \/ /\ tasks'[i] = IdleTask
                   /\ ev'.type = "refreshFailed"
                   /\ tasks[i].pc # "write" => file' = file
                \/ /\ tasks'[i] = IdleTask
                   /\ ev'.type = "refreshed"
                   /\ StartsWith(file', Stringify(tasks[i].json))
     /\ (now' >= nextDue' /\ \E i \in Slots : tasks'[i].kind = "idle")
          => (ENABLED (\E i \in Slots : TimerTick(i)))'
    ]_vars

\* A refresh started by a tick has written the file in a run in which
\* an earlier mkdir or writeFile had failed.
C19_Witness ==
  /\ ev.type = "refreshed"
  /\ now >= STATIONS_REFRESH_MS
  /\ ioFailed
  /\ fileWritten
  /\ file.data = <<"[", "s1", "]">>
\* What getCache would return for the stations url.
StationsView(c) == getCache(c, CacheKey(stationsRemote), now)

\* C20: a background refresh whose remote fetch fails stores no cache
\* entry and writes nothing to the fallback file: from its start to its
\* end it changes neither the file nor what the cache returns for the
\* stations url, nor any other activation, so the sources a /api/stations
\* request consults are as they would be without it.
C20_FailedRefreshNoEffect ==
  [][\A i \in Slots :
       /\ (tasks[i].kind = "idle" /\ tasks'[i].kind = "refresh"
             /\ tasks'[i].pc = "fetch")
            => /\ file' = file
               /\ StationsView(cache') = StationsView(cache)
       /\ (tasks[i].kind = "refresh" /\ tasks[i].pc = "fetch"
             /\ tasks'[i] # tasks[i])
            => /\ file' = file
               /\ cache' = cache
       /\ (tasks[i].kind = "refresh" /\ tasks[i].pc = "responded"
             /\ tasks[i].out.kind # "ok" /\ tasks'[i] # tasks[i])
            => /\ tasks'[i] = IdleTask
               /\ ev'.type = "refreshFailed"
               /\ file' = file
               /\ fileWritten' = fileWritten
               /\ cache' = cache
               /\ \A j \in Slots \ {i} : tasks'[j] = tasks[j]
    ]_vars

\* A refresh has just ended on a failed fetch while a /api/stations
\* request is under way and the cache and the file hold a document.
C20_Witness ==
  /\ ev.type = "refreshFailed"
  /\ ~ioFailed
  /\ file.exists
  /\ file.data = <<"[", "s1", "]">>
  /\ CacheKey(stationsRemote) \in DOMAIN cache
  /\ \E j \in Slots : tasks[j].kind = "stations"
====
